---- MODULE Spec2Model ----
(***************************************************************************)
(* Model of scripts/update-article-link-map.py: the one-shot tool that     *)
(* fetches zendesk-mapping.json with a sparse checkout, renders the        *)
(* ARTICLE_LINK_MAP entries and splices them into src/config/zendesk.ts.   *)
(*                                                                         *)
(* Text is a sequence of symbols.  A symbol is an ordinary character or    *)
(* one of three marker symbols, each standing for a whole marker string    *)
(* of the regular expressions of update_zendesk_config.  The three marker  *)
(* strings cannot overlap each other or themselves (the opening marker     *)
(* holds no "}", both closing markers start with their only "}", and       *)
(* "} as const;" does not contain "};"), so every text splits in exactly   *)
(* one way into marker occurrences and ordinary characters, and the        *)
(* regular expressions see exactly the marker symbols.                     *)
(***************************************************************************)
EXTENDS Integers, Sequences, FiniteSets, TLC

VARIABLES pc, configExists, configText, startText, tmp_dir, gitCalls,
          pending, mapping_data, entries, map_entries, exitCode, failure,
          calls, afterFirst

vars == <<pc, configExists, configText, startText, tmp_dir, gitCalls,
          pending, mapping_data, entries, map_entries, exitCode, failure,
          calls, afterFirst>>

(***************************************************************************)
(* Bounds of the model.                                                    *)
(***************************************************************************)
\* longest destination text of the patcher specification, in symbols
MaxLen == 5
\* longest generated block handed to the patcher specification
MaxBlock == 1
\* longest destination text of a whole run of main()
MaxConfigLen == 3
\* most entries of the "files" mapping in a whole run of main()
MaxRemoteEntries == 1
\* most entries of the "files" mapping handed to the transformer
MaxEntries == 3
\* most applications of update_zendesk_config in the patcher specification
MaxCalls == 2

(***************************************************************************)
(* Strings.                                                                *)
(***************************************************************************)
\* "export const ARTICLE_LINK_MAP: Record<string, string> = {"
OPEN_MARKER == "<export const ARTICLE_LINK_MAP: Record<string, string> = {>"
\* "} as const;"
STRICT_CLOSE == "<} as const;>"
\* "};"
ALT_CLOSE == "<};>"
NL == "\n"
\* an ordinary character of the destination file
OtherChar == "x"

TextAlphabet == {OPEN_MARKER, STRICT_CLOSE, ALT_CLOSE, NL, OtherChar}

SeqsUpTo(S, n) == UNION {[1..k -> S] : k \in 0..n}

\* index of the first occurrence of symbol c in s, 0 when there is none
IndexOf(s, c) ==
    IF \E k \in 1..Len(s) : s[k] = c
    THEN CHOOSE k \in 1..Len(s) : s[k] = c /\ \A h \in 1..(k - 1) : s[h] # c
    ELSE 0

(***************************************************************************)
(* update_zendesk_config                                                   *)
(***************************************************************************)
\* replace_map, and the lambda of the alternative pattern: both return the
\* opening marker, a newline, the entries, a newline and "} as const;"
replace_map(new_map_entries) ==
    <<OPEN_MARKER, NL>> \o new_map_entries \o <<NL, STRICT_CLOSE>>

\* re.sub of r"(OPEN)(.*?)(closer)" with re.DOTALL: scanning left to right,
\* every opening marker that has the closer somewhere after it starts a match
\* that runs to the FIRST such closer; the match is replaced and the scan
\* resumes behind it; every other symbol is copied.
RECURSIVE pattern_sub(_, _, _)
pattern_sub(content, closer, repl) ==
    IF content = <<>> THEN <<>>
    ELSE LET rest == Tail(content)
             j == IndexOf(rest, closer)
         IN IF Head(content) = OPEN_MARKER /\ j > 0
            THEN repl \o pattern_sub(SubSeq(rest, j + 1, Len(rest)), closer, repl)
            ELSE <<Head(content)>> \o pattern_sub(rest, closer, repl)

\* update_zendesk_config as it would be with a best-effort insertion: when
\* nothing matched the block is appended to the file before ValueError
update_zendesk_config_best_effort(content, new_map_entries) ==
    LET strict == pattern_sub(content, STRICT_CLOSE, replace_map(new_map_entries))
        new_content ==
            IF strict = content
            THEN pattern_sub(content, ALT_CLOSE, replace_map(new_map_entries))
            ELSE strict
    IN IF new_content = content
       THEN [raised |-> TRUE, text |-> content \o replace_map(new_map_entries)]
       ELSE [raised |-> FALSE, text |-> new_content]

\* the body of update_zendesk_config after read_text: the text the file holds
\* when the call is over, and whether ValueError was raised instead of writing
update_zendesk_config(content, new_map_entries) ==
    LET strict == pattern_sub(content, STRICT_CLOSE, replace_map(new_map_entries))
        new_content ==
            IF strict = content
            THEN pattern_sub(content, ALT_CLOSE, replace_map(new_map_entries))
            ELSE strict
    IN IF new_content = content
       THEN [raised |-> TRUE, text |-> content]
       ELSE [raised |-> FALSE, text |-> new_content]

(***************************************************************************)
(* generate_article_link_map                                               *)
(***************************************************************************)
\* the suffix that str.replace removes
MDX == <<".", "m", "d", "x">>

\* the paths and identifiers of the "files" mappings of the model
PathPool ==
    { <<"a", ".", "m", "d", "x">>,
      <<"b", ".", "m", "d", "x">>,
      <<"d", "/", "a", ".", "m", "d", "x">>,
      <<"/", "a", ".", "m", "d", "x">>,
      <<"a", ".", "m", ".", "m", "d", "x", "d", "x">> }
Ids == { <<"1">>, <<"1", "0">>, <<"9">> }

\* code points of the characters of the identifiers
CharCode(c) == CASE c = "0" -> 48 [] c = "1" -> 49 [] c = "9" -> 57

\* Python's < on str: by code point, a proper prefix first
RECURSIVE StrLess(_, _)
StrLess(a, b) ==
    IF b = <<>> THEN FALSE
    ELSE IF a = <<>> THEN TRUE
    ELSE IF Head(a) # Head(b) THEN CharCode(Head(a)) < CharCode(Head(b))
    ELSE StrLess(Tail(a), Tail(b))

\* a dict of path -> identifier in insertion order: a sequence of
\* <<path, identifier>> with pairwise different paths
IsDict(f) == \A i, j \in 1..Len(f) : i # j => f[i][1] # f[j][1]
Mappings(n) == {f \in SeqsUpTo(PathPool \X Ids, n) : IsDict(f)}

\* file_path.replace(".mdx", ""): the occurrences found scanning left to
\* right are removed, and the scan resumes behind each
RECURSIVE str_replace_mdx(_)
str_replace_mdx(s) ==
    IF Len(s) < Len(MDX) THEN s
    ELSE IF SubSeq(s, 1, Len(MDX)) = MDX
         THEN str_replace_mdx(SubSeq(s, Len(MDX) + 1, Len(s)))
         ELSE <<Head(s)>> \o str_replace_mdx(Tail(s))

\* f"/{clean_path}"
rendered_path(file_path) == <<"/">> \o str_replace_mdx(file_path)

\* the loop as it would be with article_map.setdefault: the first pair of an
\* identifier stays
RECURSIVE article_map_first_wins(_)
article_map_first_wins(files) ==
    IF files = <<>> THEN <<>>
    ELSE LET n == Len(files)
             before == article_map_first_wins(SubSeq(files, 1, n - 1))
             article_id == files[n][2]
         IN [id \in (DOMAIN before) \cup {article_id} |->
                IF id \in DOMAIN before THEN before[id] ELSE rendered_path(files[n][1])]

\* the loop that fills article_map: a later pair overwrites an earlier one
RECURSIVE article_map_of(_)
article_map_of(files) ==
    IF files = <<>> THEN <<>>
    ELSE LET n == Len(files)
             before == article_map_of(SubSeq(files, 1, n - 1))
             article_id == files[n][2]
         IN [id \in (DOMAIN before) \cup {article_id} |->
                IF id = article_id THEN rendered_path(files[n][1]) ELSE before[id]]

\* sorted(article_map.items(), key=lambda x: x[0])
RECURSIVE sorted_items(_, _)
sorted_items(article_map, keys) ==
    IF keys = {} THEN <<>>
    ELSE LET least == CHOOSE k \in keys : \A o \in keys : o = k \/ StrLess(k, o)
         IN <<(<<least, article_map[least]>>)>> \o sorted_items(article_map, keys \ {least})

\* f"  '{article_id}': '{path}'"
entry_line(article_id, path) ==
    <<" ", " ", "'">> \o article_id \o <<"'", ":", " ", "'">> \o path \o <<"'">>

\* ",\n".join(entries)
RECURSIVE join(_)
join(lines) ==
    IF lines = <<>> THEN <<>>
    ELSE IF Len(lines) = 1 THEN lines[1]
    ELSE lines[1] \o <<",", NL>> \o join(Tail(lines))

\* the entries list of generate_article_link_map
entries_of(files) ==
    LET article_map == article_map_of(files)
        items == sorted_items(article_map, DOMAIN article_map)
    IN [k \in 1..Len(items) |-> entry_line(items[k][1], items[k][2])]

generate_article_link_map(files) == join(entries_of(files))

(***************************************************************************)
(* The inputs of the model.                                                *)
(***************************************************************************)
Texts(n) == SeqsUpTo(TextAlphabet, n)
Blocks == SeqsUpTo({OtherChar}, MaxBlock)

\* what json.loads can return: an object (its "files" member, empty when the
\* key is absent) or a value that is no object
NoData == [kind |-> "none", files |-> <<>>]
NotAnObject == [kind |-> "list", files |-> <<>>]
Documents(n) == {[kind |-> "dict", files |-> f] : f \in Mappings(n)} \cup {NotAnObject}

NotRunning ==
    /\ tmp_dir = "none"
    /\ gitCalls = 0
    /\ pending = "none"
    /\ entries = <<>>
    /\ exitCode = -1
    /\ failure = "none"
    /\ calls = 0
    /\ afterFirst = <<>>

(***************************************************************************)
(* main(): one run of the tool.                                            *)
(***************************************************************************)
Init ==
    /\ pc = "main"
    /\ configExists \in BOOLEAN
    /\ configText \in (IF configExists THEN Texts(MaxConfigLen) ELSE {<<>>})
    /\ startText = configText
    /\ mapping_data = NoData
    /\ map_entries = <<>>
    /\ NotRunning

\* the check as it would be without its sys.exit(1): the error is printed
\* and the run goes on to fetch
CheckConfigWithoutExit ==
    /\ pc = "main"
    /\ pc' = "mkdtemp"
    /\ UNCHANGED <<exitCode, failure>>
    /\ UNCHANGED <<configExists, configText, startText, tmp_dir, gitCalls,
                   pending, mapping_data, entries, map_entries, calls, afterFirst>>

\* main, lines 147-155: the destination must exist before anything is fetched
CheckConfig ==
    /\ pc = "main"
    /\ IF configExists
       THEN /\ pc' = "mkdtemp"
            /\ UNCHANGED <<exitCode, failure>>
       ELSE /\ pc' = "done"
            /\ exitCode' = 1
            /\ failure' = "MissingTarget"
    /\ UNCHANGED <<configExists, configText, startText, tmp_dir, gitCalls,
                   pending, mapping_data, entries, map_entries, calls, afterFirst>>

\* tmp_dir = tempfile.mkdtemp()
Mkdtemp ==
    /\ pc = "mkdtemp"
    /\ tmp_dir' = "present"
    /\ pc' = "clone"
    /\ UNCHANGED <<configExists, configText, startText, gitCalls, pending,
                   mapping_data, entries, map_entries, exitCode, failure,
                   calls, afterFirst>>

\* subprocess.run(..., check=True): the command runs, and a non-zero exit
\* raises CalledProcessError, which leaves the try block through finally
GitCommand(at, next) ==
    /\ pc = at
    /\ gitCalls' = gitCalls + 1
    /\ \E ok \in BOOLEAN :
          IF ok
          THEN pc' = next /\ UNCHANGED pending
          ELSE pc' = "finally" /\ pending' = "CalledProcessError"
    /\ UNCHANGED <<configExists, configText, startText, tmp_dir,
                   mapping_data, entries, map_entries, exitCode, failure,
                   calls, afterFirst>>

GitClone == GitCommand("clone", "sparse")
GitSparseCheckoutSet == GitCommand("sparse", "checkout")
GitCheckout == GitCommand("checkout", "exists")

\* if not target.exists(): raise FileNotFoundError
TargetExists ==
    /\ pc = "exists"
    /\ \E exists \in BOOLEAN :
          IF exists
          THEN pc' = "loads" /\ UNCHANGED pending
          ELSE pc' = "finally" /\ pending' = "FileNotFoundError"
    /\ UNCHANGED <<configExists, configText, startText, tmp_dir, gitCalls,
                   mapping_data, entries, map_entries, exitCode, failure,
                   calls, afterFirst>>

\* return json.loads(target.read_text())
JsonLoads ==
    /\ pc = "loads"
    /\ \/ /\ pending' = "JSONDecodeError"
          /\ UNCHANGED mapping_data
       \/ /\ \E doc \in Documents(MaxRemoteEntries) : mapping_data' = doc
          /\ pending' = "return"
    /\ pc' = "finally"
    /\ UNCHANGED <<configExists, configText, startText, tmp_dir, gitCalls,
                   entries, map_entries, exitCode, failure, calls, afterFirst>>

\* the end of the fetcher as it would be with the rmtree behind the parse
\* instead of in a finally clause: an exception skips it
FinallyOnSuccessOnly ==
    /\ pc = "finally"
    /\ tmp_dir' = IF pending = "return" THEN "removed" ELSE tmp_dir
    /\ pc' = IF pending = "return" THEN "generate" ELSE "except"
    /\ UNCHANGED <<configExists, configText, startText, gitCalls, pending,
                   mapping_data, entries, map_entries, exitCode, failure,
                   calls, afterFirst>>

\* finally: shutil.rmtree(tmp_dir, ignore_errors=True), then the return or
\* the exception in flight reaches main
Finally ==
    /\ pc = "finally"
    /\ tmp_dir' = "removed"
    /\ pc' = IF pending = "return" THEN "generate" ELSE "except"
    /\ UNCHANGED <<configExists, configText, startText, gitCalls, pending,
                   mapping_data, entries, map_entries, exitCode, failure,
                   calls, afterFirst>>

\* main, lines 159-168: the three except clauses print and sys.exit(1)
ExceptFetch ==
    /\ pc = "except"
    /\ exitCode' = 1
    /\ failure' = pending
    /\ pc' = "done"
    /\ UNCHANGED <<configExists, configText, startText, tmp_dir, gitCalls,
                   pending, mapping_data, entries, map_entries, calls, afterFirst>>

\* map_entries = generate_article_link_map(mapping_data); mapping_data.get
\* raises AttributeError, which nothing catches, when the document is no object
Generate ==
    /\ pc = "generate"
    /\ IF mapping_data.kind = "dict"
       THEN /\ entries' = entries_of(mapping_data.files)
            /\ map_entries' = generate_article_link_map(mapping_data.files)
            /\ pc' = "update"
            /\ UNCHANGED <<exitCode, failure>>
       ELSE /\ exitCode' = 1
            /\ failure' = "AttributeError"
            /\ pc' = "done"
            /\ UNCHANGED <<entries, map_entries>>
    /\ UNCHANGED <<configExists, configText, startText, tmp_dir, gitCalls,
                   pending, mapping_data, calls, afterFirst>>

\* main, lines 172-176, around update_zendesk_config(ZENDESK_CONFIG, map_entries)
UpdateConfig ==
    /\ pc = "update"
    /\ LET r == update_zendesk_config(configText, map_entries)
       IN /\ configText' = r.text
          /\ exitCode' = IF r.raised THEN 1 ELSE 0
          /\ failure' = IF r.raised THEN "ValueError" ELSE "none"
    /\ pc' = "done"
    /\ calls' = calls + 1
    /\ UNCHANGED <<configExists, startText, tmp_dir, gitCalls, pending,
                   mapping_data, entries, map_entries, afterFirst>>

Next ==
    \/ CheckConfig
    \/ Mkdtemp
    \/ GitClone
    \/ GitSparseCheckoutSet
    \/ GitCheckout
    \/ TargetExists
    \/ JsonLoads
    \/ Finally
    \/ ExceptFetch
    \/ Generate
    \/ UpdateConfig

Spec == Init /\ [][Next]_vars

(***************************************************************************)
(* update_zendesk_config on its own: one destination text, one generated   *)
(* block, applied again and again.                                         *)
(***************************************************************************)
InitPatch ==
    /\ pc = "patch"
    /\ configExists = TRUE
    /\ configText \in Texts(MaxLen)
    /\ startText = configText
    /\ mapping_data = NoData
    /\ map_entries \in Blocks
    /\ NotRunning

\* update_zendesk_config(config_path, new_map_entries), lines 112-142
ApplyToFile ==
    /\ pc = "patch"
    /\ calls < MaxCalls
    /\ LET r == update_zendesk_config(configText, map_entries)
       IN /\ configText' = r.text
          /\ failure' = IF r.raised THEN "ValueError" ELSE "none"
          /\ afterFirst' = IF calls = 0 THEN r.text ELSE afterFirst
    /\ calls' = calls + 1
    /\ UNCHANGED <<pc, configExists, startText, tmp_dir, gitCalls, pending,
                   mapping_data, entries, map_entries, exitCode>>

NextPatch == ApplyToFile

SpecPatch == InitPatch /\ [][NextPatch]_vars

(***************************************************************************)
(* generate_article_link_map on its own.                                   *)
(***************************************************************************)
InitGen ==
    /\ pc = "generate"
    /\ configExists = TRUE
    /\ configText = <<>>
    /\ startText = <<>>
    /\ mapping_data \in Documents(MaxEntries)
    /\ map_entries = <<>>
    /\ NotRunning

NextGen == Generate

SpecGen == InitGen /\ [][NextGen]_vars

(***************************************************************************)
(* Properties.                                                             *)
(***************************************************************************)
Closers == {STRICT_CLOSE, ALT_CLOSE}

\* some opening marker of t has the closing marker c behind it
HasRegion(t, c) ==
    \E i, j \in 1..Len(t) : i < j /\ t[i] = OPEN_MARKER /\ t[j] = c

\* the text before position i and the text behind position j
Before(t, i) == SubSeq(t, 1, i - 1)
Behind(t, j) == SubSeq(t, j + 1, Len(t))

\* the first accepted closing marker behind position i, 0 when there is none
FirstCloserBehind(t, i) ==
    IF \E j \in (i + 1)..Len(t) : t[j] \in Closers
    THEN CHOOSE j \in (i + 1)..Len(t) :
            t[j] \in Closers /\ \A h \in (i + 1)..(j - 1) : t[h] \notin Closers
    ELSE 0

\* the candidate blocks of t: an opening marker that no earlier candidate
\* contains, up to the first accepted closing marker behind it
RECURSIVE CandidatesFrom(_, _)
CandidatesFrom(t, i) ==
    IF i > Len(t) THEN 0
    ELSE IF t[i] = OPEN_MARKER /\ FirstCloserBehind(t, i) > 0
         THEN 1 + CandidatesFrom(t, FirstCloserBehind(t, i) + 1)
         ELSE CandidatesFrom(t, i + 1)
Candidates(t) == CandidatesFrom(t, 1)

\* s occurs in t
Contains(t, s) ==
    \E k \in 0..(Len(t) - Len(s)) : SubSeq(t, k + 1, k + Len(s)) = s

\* C1: a run of main() that ends in a failure leaves the destination file as
\* it was at the start, and the file changes only in a run whose fetch
\* returned a document and whose update matched and exits with 0.
FailureLeavesFileUntouched ==
    /\ exitCode = 1 => configText = startText
    /\ configText # startText =>
          /\ pc = "done"
          /\ exitCode = 0
          /\ pending = "return"
          /\ tmp_dir = "removed"
          /\ HasRegion(startText, STRICT_CLOSE) \/ HasRegion(startText, ALT_CLOSE)

\* a run that fetched and generated, found no block and failed
BlockNotFoundReached ==
    /\ pc = "done"
    /\ exitCode = 1
    /\ failure = "ValueError"
    /\ pending = "return"
    /\ Len(startText) > 0
    /\ map_entries # <<>>

\* C2: applying update_zendesk_config with the same block to the file it has
\* already patched leaves the text of the first application.
PatchContentStable ==
    (calls >= 2 /\ afterFirst # startText) => configText = afterFirst

\* C3: update_zendesk_config raises and writes nothing whenever the text
\* does not hold exactly one candidate block.
AmbiguousBlockFails ==
    (calls = 1 /\ pc = "patch" /\ Candidates(startText) # 1) =>
        (failure = "ValueError" /\ configText = startText)

\* C4: a successful patch yields the text before an opening marker, the
\* opening marker, a newline, the block, a newline, "} as const;" and the
\* text behind the matched closing marker; nothing else changes.
SpliceKeepsSurroundings ==
    (calls = 1 /\ pc = "patch" /\ failure = "none") =>
        \E i, j \in 1..Len(startText) :
            /\ i < j
            /\ startText[i] = OPEN_MARKER
            /\ startText[j] \in Closers
            /\ configText = Before(startText, i) \o replace_map(map_entries)
                              \o Behind(startText, j)

\* C5: ValueError is raised exactly when no region matches under either
\* pattern, and a match of the strict pattern always succeeds with the
\* result of the strict pattern.
NotFoundIffNoRegion ==
    (calls = 1 /\ pc = "patch") =>
        /\ failure = "ValueError" <=>
              (~HasRegion(startText, STRICT_CLOSE) /\ ~HasRegion(startText, ALT_CLOSE))
        /\ HasRegion(startText, STRICT_CLOSE) =>
              configText = pattern_sub(startText, STRICT_CLOSE, replace_map(map_entries))

\* the path of an entry line whose identifier is id
LinePath(line, id) == SubSeq(line, Len(id) + 8, Len(line) - 1)
LineHasId(line, id) ==
    /\ Len(line) >= Len(id) + 8
    /\ SubSeq(line, 1, Len(id) + 7) = <<" ", " ", "'">> \o id \o <<"'", ":", " ", "'">>

\* C6: every rendered path starts with exactly one "/" and holds no ".mdx".
RenderedPathClean ==
    \A k \in 1..Len(entries) : \A id \in Ids :
        LineHasId(entries[k], id) =>
            LET path == LinePath(entries[k], id)
            IN /\ Len(path) >= 1
               /\ path[1] = "/"
               /\ Len(path) >= 2 => path[2] # "/"
               /\ ~Contains(path, MDX)

\* the last position of files that carries the identifier id
LastWith(files, id) ==
    CHOOSE i \in 1..Len(files) :
        files[i][2] = id /\ \A h \in (i + 1)..Len(files) : files[h][2] # id

\* C7: the output has one entry line per distinct identifier, at the rank of
\* the identifier in ascending string order, carrying the transformed path of
\* the last source entry with that identifier; the block is these lines
\* joined by ",\n".
GenerateMatchesReference ==
    (pc = "update" /\ mapping_data.kind = "dict") =>
        LET files == mapping_data.files
            ids == {files[i][2] : i \in 1..Len(files)}
        IN /\ Len(entries) = Cardinality(ids)
           /\ \A id \in ids :
                 LET rank == 1 + Cardinality({o \in ids : StrLess(o, id)})
                 IN entries[rank] =
                       entry_line(id, <<"/">> \o str_replace_mdx(files[LastWith(files, id)][1]))
           /\ \A k \in 1..(Len(entries) - 1) : \E a, b \in ids :
                 /\ LineHasId(entries[k], a)
                 /\ LineHasId(entries[k + 1], b)
                 /\ StrLess(a, b)
           /\ map_entries = join(entries)

\* a generated mapping in which an identifier occurs twice with different
\* paths and the source order is not the identifier order
DuplicateIdGenerated ==
    /\ pc = "update"
    /\ mapping_data.kind = "dict"
    /\ LET files == mapping_data.files
       IN /\ Len(files) >= 3
          /\ \E i, j \in 1..Len(files) :
                /\ i < j
                /\ files[i][2] = files[j][2]
                /\ str_replace_mdx(files[i][1]) # str_replace_mdx(files[j][1])
          /\ \E i, j \in 1..Len(files) : i < j /\ StrLess(files[j][2], files[i][2])
          /\ Len(entries) = 2

\* C8: once control is back in main() the temporary directory of the fetch
\* is gone, whichever way the fetcher was left.
TmpDirRemovedOnReturn ==
    pc \in {"except", "generate", "update", "done"} => tmp_dir # "present"

\* the fetcher left by the JSON parse failure, directory removed
ParseFailureCleanedUp ==
    /\ pc = "except"
    /\ pending = "JSONDecodeError"
    /\ gitCalls = 3
    /\ tmp_dir = "removed"

\* C9: when the destination file does not exist the run ends with exit code
\* 1 and never fetches: no git command runs and no temporary directory is
\* created.
MissingTargetFailsFast ==
    ~configExists =>
        /\ pc \in {"main", "done"}
        /\ gitCalls = 0
        /\ tmp_dir = "none"
        /\ pc = "done" => (exitCode = 1 /\ failure = "MissingTarget")

\* the run that found no destination file and exited
MissingTargetExited ==
    /\ ~configExists
    /\ pc = "done"
    /\ exitCode = 1

\* C10: with one opening marker in the file, the replaced region ends at the
\* first accepted closing marker behind it, and the text behind that marker
\* is kept.
RegionEndsAtFirstCloser ==
    (/\ calls = 1
     /\ pc = "patch"
     /\ failure = "none"
     /\ Cardinality({i \in 1..Len(startText) : startText[i] = OPEN_MARKER}) = 1) =>
        LET i == IndexOf(startText, OPEN_MARKER)
            j == FirstCloserBehind(startText, i)
        IN /\ j > 0
           /\ configText = Before(startText, i) \o replace_map(map_entries)
                             \o Behind(startText, j)

====
